---- MODULE Spec2Model ----
(***************************************************************************)
(* KEYGEN (src/keygen/keygen.py): blacklistCharacters, keygen and main.    *)
(*                                                                         *)
(* A Python argument is a record [kind, elems]: kind is the runtime type   *)
(* of the object ("list", "tuple", "None", "int") and elems its elements   *)
(* (strings).  A keyLength argument is a record [kind, val].  A call runs   *)
(* until it raises, returns, or blocks in input(); every line typed at a   *)
(* prompt is one step.                                                     *)
(***************************************************************************)
EXTENDS Integers, Sequences, FiniteSets, TLC

VARIABLES
    pc,         \* position of the program
    numbers,    \* the caller's three pool containers and its blacklist
    letters,
    symbols,
    blacklist,
    keyLength,  \* the caller's keyLength, then the local one while prompting
    key,        \* the key last returned
    call,       \* the call in progress or just finished: arguments and outcome
    entered     \* main: the blacklist line the prompt accepted for the present pools

vars == <<pc, numbers, letters, symbols, blacklist, keyLength, key, call, entered>>

(***************************************************************************)
(* Bounds of the model.                                                    *)
(***************************************************************************)
MaxPool == 2        \* longest pool / blacklist list passed to the functions
MaxKeyLen == 2      \* largest keyLength passed or typed

(***************************************************************************)
(* Python values.                                                          *)
(***************************************************************************)
List(s) == [kind |-> "list", elems |-> s]
Tuple(s) == [kind |-> "tuple", elems |-> s]
None == [kind |-> "None", elems |-> <<>>]
IntObj == [kind |-> "int", elems |-> <<>>]

Int_(n) == [kind |-> "int", val |-> n]
NoLength == [kind |-> "None", val |-> 0]
StrLength == [kind |-> "str", val |-> 0]

SeqUpTo(n, S) == UNION {[1..k -> S] : k \in 0..n}
Range(s) == {s[i] : i \in DOMAIN s}
Reverse(s) == [i \in DOMAIN s |-> s[Len(s) + 1 - i]]

\* isinstance(x, list)
isinstance_list(a) == a.kind = "list"

\* whether iterating the object works; iterating None or an int raises TypeError
iterable(a) == a.kind \in {"list", "tuple"}

\* all(isinstance(string, str) and len(string) == 1 for string in listArgument)
allSingleCharacters(a) == \A i \in DOMAIN a.elems : Len(a.elems[i]) = 1

\* set(x)
set(a) == Range(a.elems)

\* The characters the model knows, in one possible iteration order of a set.
Universe == <<"0", "1", "a", "!", " ", "ab", "">>

\* list(aSet) enumerates a set in an order the hash table decides.
HashOrders == {Universe, Reverse(Universe)}

list(S, order) == List(SelectSeq(order, LAMBDA c : c \in S))

(***************************************************************************)
(* Errors.                                                                 *)
(***************************************************************************)
NoError == [exc |-> "none", msg |-> "", names |-> <<>>]
Error(e, m, n) == [exc |-> e, msg |-> m, names |-> n]

\* the names of `order` that are in `hit`, in the dictionary's order
namesIn(order, hit) == SelectSeq(order, LAMBDA x : x \in hit)

(***************************************************************************)
(* blacklistCharacters                                                     *)
(***************************************************************************)
\* what a call has done when it raises, blocks in input() or returns
BOutcome(at, err, n, l, s, b, ret) ==
    [at |-> at, exc |-> err.exc, msg |-> err.msg, names |-> err.names,
     numbers |-> n, letters |-> l, symbols |-> s, blacklist |-> b, ret |-> ret]

\* listArgumentNames of blacklistCharacters
blacklistArguments(n, l, s, b) ==
    {[name |-> "numbers", arg |-> n], [name |-> "letters", arg |-> l],
     [name |-> "symbols", arg |-> s], [name |-> "blacklist", arg |-> b]}

\* listFails: the pools that are not lists (blacklist is exempt)
blacklistListFails(n, l, s, b) ==
    namesIn(<<"numbers", "letters", "symbols", "blacklist">>,
            {p.name : p \in {q \in blacklistArguments(n, l, s, b) :
                                q.name # "blacklist" /\ ~isinstance_list(q.arg)}})

\* faulty variant: stops at the first argument with a bad element
blacklistCharacterFails_firstOnly(n, l, s, b) ==
    LET all == namesIn(<<"numbers", "letters", "symbols", "blacklist">>,
            {p.name : p \in {q \in blacklistArguments(n, l, s, b) :
                                q.arg # None /\ ~allSingleCharacters(q.arg)}})
    IN  IF all = <<>> THEN all ELSE <<Head(all)>>

\* characterFails: the arguments, None aside, with an element that is not one character
blacklistCharacterFails(n, l, s, b) ==
    namesIn(<<"numbers", "letters", "symbols", "blacklist">>,
            {p.name : p \in {q \in blacklistArguments(n, l, s, b) :
                                q.arg # None /\ ~allSingleCharacters(q.arg)}})

\* the checks before the prompt; the loop over the arguments iterates each
\* one that is not None, which raises Python's own TypeError on an int
blacklistValidate(n, l, s, b, printToConsole) ==
    IF printToConsole \notin {"True", "False"}
    THEN Error("TypeError", "printToConsole type", <<"printToConsole">>)
    ELSE IF b # None /\ ~isinstance_list(b)
    THEN Error("TypeError", "blacklist type", <<"blacklist">>)
    ELSE IF \E a \in {n, l, s} : a # None /\ ~iterable(a)
    THEN Error("TypeError", "not iterable", <<>>)
    ELSE IF blacklistListFails(n, l, s, b) # <<>>
    THEN Error("TypeError", "list type", blacklistListFails(n, l, s, b))
    ELSE IF blacklistCharacterFails(n, l, s, b) # <<>>
    THEN Error("ValueError", "character length", blacklistCharacterFails(n, l, s, b))
    ELSE NoError

\* faulty variant: the operands of the set difference are swapped
blacklistRejected_swapped(n, l, s, b) ==
    Cardinality(set(b) \ (set(n) \cup set(l) \cup set(s))) = 0

\* the prompt asks again when the proposed blacklist leaves no character
blacklistRejected(n, l, s, b) ==
    Cardinality((set(n) \cup set(l) \cup set(s)) \ set(b)) = 0

\* faulty variant: the subtraction of the blacklist is left out
poolSet_unfiltered(pool, b) == set(pool)

\* numbersSet, lettersSet, symbolsSet after the subtraction
poolSet(pool, b) == set(pool) \ set(b)

\* faulty variant: subtracts the pools after they were filtered
blacklistSet_fromFilteredPools(n, l, s, b) ==
    set(b) \ (poolSet(n, b) \cup poolSet(l, b) \cup poolSet(s, b))

\* blacklistSet after its update: the lists still hold their old contents here
blacklistSet(n, l, s, b) == set(b) \ (set(n) \cup set(l) \cup set(s))

\* from the conversion to sets to the return; callerBlacklist is the caller's
\* own container, which the slice assignment reaches only if it was passed in
blacklistFilter(n, l, s, b, callerBlacklist, order) ==
    LET left == list(blacklistSet(n, l, s, b), order)
    IN  BOutcome("return", NoError,
                 list(poolSet(n, b), order), list(poolSet(l, b), order),
                 list(poolSet(s, b), order),
                 IF callerBlacklist = None THEN None ELSE left, left)

\* faulty variant: the element check runs after the pools were rewritten
blacklistCharacters_lateCharacterCheck(n, l, s, b, printToConsole, order) ==
    LET err == blacklistValidate(n, l, s, b, printToConsole)
    IN  IF err.msg = "character length" /\ b # None
        THEN [blacklistFilter(n, l, s, b, b, order) EXCEPT
                 !.at = "raise", !.exc = err.exc, !.msg = err.msg,
                 !.names = err.names, !.ret = None]
        ELSE IF err # NoError THEN BOutcome("raise", err, n, l, s, b, None)
        ELSE IF printToConsole = "True" /\ ~isinstance_list(b)
        THEN BOutcome("input", NoError, n, l, s, b, None)
        ELSE IF b = None
        THEN BOutcome("raise", Error("TypeError", "blacklist None", <<"blacklist">>),
                      n, l, s, b, None)
        ELSE blacklistFilter(n, l, s, b, b, order)

\* a call, up to its first input() if it prompts
blacklistCharacters(n, l, s, b, printToConsole, order) ==
    LET err == blacklistValidate(n, l, s, b, printToConsole)
    IN  IF err # NoError THEN BOutcome("raise", err, n, l, s, b, None)
        ELSE IF printToConsole = "True" /\ ~isinstance_list(b)
        THEN BOutcome("input", NoError, n, l, s, b, None)
        ELSE IF b = None
        THEN BOutcome("raise", Error("TypeError", "blacklist None", <<"blacklist">>),
                      n, l, s, b, None)
        ELSE blacklistFilter(n, l, s, b, b, order)

\* one line typed at the blacklist prompt: blacklist = list(input(...))
blacklistCharactersInput(n, l, s, line, order) ==
    IF blacklistRejected(n, l, s, List(line))
    THEN BOutcome("input", NoError, n, l, s, None, None)
    ELSE blacklistFilter(n, l, s, List(line), None, order)

(***************************************************************************)
(* keygen                                                                  *)
(***************************************************************************)
KOutcome(at, err, kl, cs, k) ==
    [at |-> at, exc |-> err.exc, msg |-> err.msg, names |-> err.names,
     keyLength |-> kl, characterSets |-> cs, key |-> k]

\* listArgumentNames of keygen
keygenArguments(n, l, s) ==
    {[name |-> "numbers", arg |-> n], [name |-> "letters", arg |-> l],
     [name |-> "symbols", arg |-> s]}

keygenListFails(n, l, s) ==
    namesIn(<<"numbers", "letters", "symbols">>,
            {p.name : p \in {q \in keygenArguments(n, l, s) : ~isinstance_list(q.arg)}})

keygenCharacterFails(n, l, s) ==
    namesIn(<<"numbers", "letters", "symbols">>,
            {p.name : p \in {q \in keygenArguments(n, l, s) : ~allSingleCharacters(q.arg)}})

\* the checks before the prompt; here the loop iterates every argument, so
\* None too raises Python's own TypeError
keygenValidate(n, l, s, kl, printToConsole) ==
    IF printToConsole \notin {"True", "False"}
    THEN Error("TypeError", "printToConsole type", <<"printToConsole">>)
    ELSE IF kl.kind \notin {"None", "int"}
    THEN Error("TypeError", "keyLength type", <<"keyLength">>)
    ELSE IF \E a \in {n, l, s} : ~iterable(a)
    THEN Error("TypeError", "not iterable", <<>>)
    ELSE IF keygenListFails(n, l, s) # <<>>
    THEN Error("TypeError", "list type", keygenListFails(n, l, s))
    ELSE IF keygenCharacterFails(n, l, s) # <<>>
    THEN Error("ValueError", "character length", keygenCharacterFails(n, l, s))
    ELSE NoError

\* int(text) of a typed line: an optional sign and decimal digits (the lines
\* the model types hold no blanks or underscores, which int() also accepts)
DigitChar == <<"0", "1", "2", "3", "4", "5", "6", "7", "8", "9">>
DigitVal(c) == CHOOSE d \in 0..9 : DigitChar[d + 1] = c

RECURSIVE Decimal(_)
Decimal(ds) ==
    IF ds = <<>> THEN 0
    ELSE 10 * Decimal(SubSeq(ds, 1, Len(ds) - 1)) + DigitVal(ds[Len(ds)])

ParseInt(line) ==
    LET signed == line # <<>> /\ line[1] \in {"-", "+"}
        ds == IF signed THEN Tail(line) ELSE line
    IN  IF ds = <<>> \/ \E i \in DOMAIN ds : ds[i] \notin Range(DigitChar)
        THEN [ok |-> FALSE, val |-> 0]
        ELSE [ok |-> TRUE,
              val |-> IF signed /\ line[1] = "-" THEN 0 - Decimal(ds) ELSE Decimal(ds)]

\* while True: if keyLength != None and keyLength > 0: break
keyLengthAccepted(kl) == kl.kind = "int" /\ kl.val > 0

\* faulty variant: keyLength < 0 in place of keyLength <= 0
keyLengthError_negativeOnly(kl) ==
    IF kl.kind = "None" THEN Error("TypeError", "keyLength None", <<"keyLength">>)
    ELSE IF kl.val < 0 THEN Error("ValueError", "keyLength value", <<"keyLength">>)
    ELSE NoError

\* the non-interactive branches: a missing and a non-positive keyLength
keyLengthError(kl) ==
    IF kl.kind = "None" THEN Error("TypeError", "keyLength None", <<"keyLength">>)
    ELSE IF kl.val <= 0 THEN Error("ValueError", "keyLength value", <<"keyLength">>)
    ELSE NoError

\* faulty variant: compares the pools with None in place of testing emptiness
allEmpty_comparesNone(n, l, s) == n = None /\ l = None /\ s = None

\* not numbers and not letters and not symbols
allEmpty(n, l, s) == Len(n.elems) = 0 /\ Len(l.elems) = 0 /\ Len(s.elems) = 0

\* list.remove(x): drops the first element equal to x
RemoveFirst(seq, x) ==
    LET i == CHOOSE j \in DOMAIN seq : seq[j] = x /\ \A m \in 1..(j - 1) : seq[m] # x
    IN  SubSeq(seq, 1, i - 1) \o SubSeq(seq, i + 1, Len(seq))

\* the removal loop run over the list itself: the index moves on after a
\* removal and skips the element that slid into its place
RECURSIVE RemoveWhileIterating(_, _)
RemoveWhileIterating(seq, i) ==
    IF i > Len(seq) THEN seq
    ELSE IF Len(seq[i]) = 0 THEN RemoveWhileIterating(RemoveFirst(seq, seq[i]), i + 1)
    ELSE RemoveWhileIterating(seq, i + 1)

\* faulty variant: the loop runs over characterSets, not over its copy
characterSets_noCopy(n, l, s) == RemoveWhileIterating(<<n.elems, l.elems, s.elems>>, 1)

\* characterSets after the loop over its copy has removed the empty ones
characterSets(n, l, s) ==
    LET copy == <<n.elems, l.elems, s.elems>>
        step(cs, i) == IF Len(copy[i]) = 0 THEN RemoveFirst(cs, copy[i]) ELSE cs
    IN  step(step(step(copy, 1), 2), 3)

\* faulty variant: range(keyLength + 1)
Keys_oneMore(cs, len) ==
    [1..(len + 1) -> UNION {Range(cs[j]) : j \in DOMAIN cs}]

\* the keys the loop can build: every position is rng.choice of rng.choice(characterSets)
Keys(cs, len) ==
    [1..len -> UNION {Range(cs[j]) : j \in DOMAIN cs}]

\* rng.choice raises IndexError on an empty sequence
choiceCanFail(cs, len) ==
    len > 0 /\ (cs = <<>> \/ \E j \in DOMAIN cs : cs[j] = <<>>)

\* from the emptiness check to the return: the outcomes the random draws allow
keygenGenerate(n, l, s, kl) ==
    IF allEmpty(n, l, s)
    THEN {KOutcome("raise", Error("ValueError", "all empty", <<>>), kl, <<>>, <<>>)}
    ELSE LET cs == characterSets(n, l, s)
         IN  {KOutcome("return", NoError, kl, cs, k) : k \in Keys(cs, kl.val)}
             \cup (IF choiceCanFail(cs, kl.val)
                   THEN {KOutcome("raise", Error("IndexError", "empty choice", <<>>),
                                  kl, cs, <<>>)}
                   ELSE {})

\* a call, up to its first input() if it prompts
keygen(n, l, s, kl, printToConsole) ==
    LET err == keygenValidate(n, l, s, kl, printToConsole)
    IN  IF err # NoError THEN {KOutcome("raise", err, kl, <<>>, <<>>)}
        ELSE IF printToConsole = "True"
        THEN IF keyLengthAccepted(kl) THEN keygenGenerate(n, l, s, kl)
             ELSE {KOutcome("input", NoError, kl, <<>>, <<>>)}
        ELSE IF keyLengthError(kl) # NoError
        THEN {KOutcome("raise", keyLengthError(kl), kl, <<>>, <<>>)}
        ELSE keygenGenerate(n, l, s, kl)

\* one line typed at the keyLength prompt; a line int() rejects leaves
\* keyLength as it was, a non-positive number is stored and asked again
keygenInput(n, l, s, kl, line) ==
    LET parsed == ParseInt(line)
    IN  IF ~parsed.ok THEN {KOutcome("input", NoError, kl, <<>>, <<>>)}
        ELSE IF parsed.val > 0 THEN keygenGenerate(n, l, s, Int_(parsed.val))
        ELSE {KOutcome("input", NoError, Int_(parsed.val), <<>>, <<>>)}

(***************************************************************************)
(* The functions called by any caller.                                     *)
(***************************************************************************)
\* the characters of the pools and blacklists a caller passes
Chars == {"0", "a"}

PoolLists == {List(q) : q \in SeqUpTo(MaxPool, Chars)}

\* arguments the validation rejects, and None
BadArguments == {None, IntObj, Tuple(<<"0">>), Tuple(<<"ab">>), List(<<"ab">>)}

PoolArguments == PoolLists \cup BadArguments

PrintToConsoleArguments == {"True", "False", "str"}

KeyLengthArguments == {NoLength, StrLength} \cup {Int_(i) : i \in -1..MaxKeyLen}

\* lines typed at the blacklist prompt of a direct call
BlacklistLines == SeqUpTo(MaxPool, Chars)

\* lines typed at the keyLength prompt
LengthLines ==
    {<<DigitChar[i + 1]>> : i \in 0..MaxKeyLen}
    \cup {<<"-", "1">>, <<"0", "1">>, <<"x">>, <<"-">>, <<>>}

NoCall == [fn |-> "none", site |-> "caller"]

Init ==
    /\ pc = "idle"
    /\ numbers = List(<<>>)
    /\ letters = List(<<>>)
    /\ symbols = List(<<>>)
    /\ blacklist = None
    /\ keyLength = NoLength
    /\ key = <<>>
    /\ call = NoCall
    /\ entered = <<>>

\* the caller's state once blacklistCharacters stopped with outcome o
AfterBlacklist(args, used, o) ==
    /\ pc' = IF o.at = "input" THEN "input" ELSE "done"
    /\ numbers' = o.numbers
    /\ letters' = o.letters
    /\ symbols' = o.symbols
    /\ blacklist' = o.blacklist
    /\ call' = [fn |-> "blacklistCharacters", site |-> "caller", args |-> args,
                used |-> used, out |-> o]
    /\ UNCHANGED <<keyLength, key, entered>>

CallBlacklistCharacters ==
    /\ pc = "idle"
    /\ \E n \in PoolArguments, l \in PoolArguments, s \in PoolArguments,
          b \in PoolArguments, p \in PrintToConsoleArguments, order \in HashOrders :
          AfterBlacklist([numbers |-> n, letters |-> l, symbols |-> s, blacklist |-> b,
                          keyLength |-> NoLength, printToConsole |-> p],
                         b, blacklistCharacters(n, l, s, b, p, order))

BlacklistInput ==
    /\ pc = "input"
    /\ call.fn = "blacklistCharacters"
    /\ \E line \in BlacklistLines, order \in HashOrders :
          AfterBlacklist(call.args, List(line),
                         blacklistCharactersInput(numbers, letters, symbols, line, order))

\* the caller's state once keygen stopped with outcome o
AfterKeygen(args, o) ==
    /\ pc' = IF o.at = "input" THEN "input" ELSE "done"
    /\ keyLength' = o.keyLength
    /\ key' = o.key
    /\ call' = [fn |-> "keygen", site |-> "caller", args |-> args, used |-> None,
                out |-> o]
    /\ UNCHANGED <<blacklist, entered>>

CallKeygen ==
    /\ pc = "idle"
    /\ \E n \in PoolArguments, l \in PoolArguments, s \in PoolArguments,
          kl \in KeyLengthArguments, p \in PrintToConsoleArguments :
          /\ numbers' = n
          /\ letters' = l
          /\ symbols' = s
          /\ \E o \in keygen(n, l, s, kl, p) :
                AfterKeygen([numbers |-> n, letters |-> l, symbols |-> s,
                             blacklist |-> None, keyLength |-> kl, printToConsole |-> p], o)

KeygenInput ==
    /\ pc = "input"
    /\ call.fn = "keygen"
    /\ \E line \in LengthLines :
          \E o \in keygenInput(numbers, letters, symbols, keyLength, line) :
             AfterKeygen(call.args, o)
    /\ UNCHANGED <<numbers, letters, symbols>>

\* the caller drops the containers and the result
Return ==
    /\ pc = "done"
    /\ pc' = "idle"
    /\ numbers' = List(<<>>)
    /\ letters' = List(<<>>)
    /\ symbols' = List(<<>>)
    /\ blacklist' = None
    /\ keyLength' = NoLength
    /\ key' = <<>>
    /\ call' = NoCall
    /\ entered' = <<>>

Next ==
    \/ CallBlacklistCharacters
    \/ BlacklistInput
    \/ CallKeygen
    \/ KeygenInput
    \/ Return

Spec == Init /\ [][Next]_vars

(***************************************************************************)
(* main: the interactive shell.  The alphabets are cut down to a few       *)
(* characters of string.digits, string.ascii_letters, string.punctuation.  *)
(***************************************************************************)
digits == <<"0", "1">>
ascii_letters == <<"a">>
punctuation == <<"!">>

\* what the user can type at the blacklist prompt: any choice of the pool
\* characters and the blank, and a line that repeats a character
MainBlacklistLines ==
    {SelectSeq(Universe, LAMBDA c : c \in S) :
        S \in SUBSET (Range(digits) \cup Range(ascii_letters) \cup Range(punctuation)
                      \cup {" "})}
    \cup {<<"0", "0">>}

Options == {"1", "2", "3", "4", "5", "6"}

\* faulty variant: option 3 does not reinitialize the pools
mainOption_staleBlacklist(option, n, l, s, kl) ==
    IF option = "1" THEN [next |-> "keygen", numbers |-> n, letters |-> l,
                          symbols |-> s, keyLength |-> kl]
    ELSE IF option = "2" THEN [next |-> "keygen", numbers |-> n, letters |-> l,
                               symbols |-> s, keyLength |-> NoLength]
    ELSE IF option = "3" THEN [next |-> "blacklistCharacters", numbers |-> n,
                               letters |-> l, symbols |-> s, keyLength |-> kl]
    ELSE IF option = "4" THEN [next |-> "blacklistCharacters", numbers |-> List(digits),
                               letters |-> List(ascii_letters),
                               symbols |-> List(punctuation), keyLength |-> NoLength]
    ELSE IF option = "5" THEN [next |-> "exit", numbers |-> n, letters |-> l,
                               symbols |-> s, keyLength |-> kl]
    ELSE [next |-> "menu", numbers |-> n, letters |-> l, symbols |-> s, keyLength |-> kl]

\* what a menu option assigns before it calls a function, and which one it calls
mainOption(option, n, l, s, kl) ==
    IF option = "1" THEN [next |-> "keygen", numbers |-> n, letters |-> l,
                          symbols |-> s, keyLength |-> kl]
    ELSE IF option = "2" THEN [next |-> "keygen", numbers |-> n, letters |-> l,
                               symbols |-> s, keyLength |-> NoLength]
    ELSE IF option = "3" THEN [next |-> "blacklistCharacters", numbers |-> List(digits),
                               letters |-> List(ascii_letters),
                               symbols |-> List(punctuation), keyLength |-> kl]
    ELSE IF option = "4" THEN [next |-> "blacklistCharacters", numbers |-> List(digits),
                               letters |-> List(ascii_letters),
                               symbols |-> List(punctuation), keyLength |-> NoLength]
    ELSE IF option = "5" THEN [next |-> "exit", numbers |-> n, letters |-> l,
                               symbols |-> s, keyLength |-> kl]
    ELSE [next |-> "menu", numbers |-> n, letters |-> l, symbols |-> s, keyLength |-> kl]

\* main once keygen, called with printToConsole = True, stopped with outcome o;
\* an exception of keygen is not caught and ends the program
MainAfterKeygen(site, n, l, s, kl, o) ==
    /\ pc' = IF o.at = "input" THEN "main_length"
             ELSE IF o.at = "return" THEN "main_menu" ELSE "main_raised"
    /\ keyLength' = o.keyLength
    /\ key' = IF o.at = "return" THEN o.key ELSE key
    /\ call' = [fn |-> "keygen", site |-> site,
                args |-> [numbers |-> n, letters |-> l, symbols |-> s, blacklist |-> None,
                          keyLength |-> kl, printToConsole |-> "True"],
                used |-> None, out |-> o]

\* main blocked in the prompt of blacklistCharacters(numbers, letters, symbols,
\* printToConsole = True)
MainAtBlacklistPrompt(site, n, l, s, kl, o) ==
    /\ pc' = IF o.at = "input" THEN "main_blacklist" ELSE "main_raised"
    /\ numbers' = o.numbers
    /\ letters' = o.letters
    /\ symbols' = o.symbols
    /\ keyLength' = kl
    /\ call' = [fn |-> "blacklistCharacters", site |-> site,
                args |-> [numbers |-> n, letters |-> l, symbols |-> s, blacklist |-> None,
                          keyLength |-> kl, printToConsole |-> "True"],
                used |-> None, out |-> o]

MainInit ==
    /\ pc = "main_blacklist"
    /\ numbers = List(digits)
    /\ letters = List(ascii_letters)
    /\ symbols = List(punctuation)
    /\ blacklist = None
    /\ keyLength = NoLength
    /\ key = <<>>
    /\ call = [fn |-> "blacklistCharacters", site |-> "start",
               args |-> [numbers |-> List(digits), letters |-> List(ascii_letters),
                         symbols |-> List(punctuation), blacklist |-> None,
                         keyLength |-> NoLength, printToConsole |-> "True"],
               used |-> None,
               out |-> blacklistCharacters(List(digits), List(ascii_letters),
                                           List(punctuation), None, "True", Universe)]
    /\ entered = <<>>

\* a line typed at the blacklist prompt; once it is accepted the pools are
\* filtered and main goes on to its keygen call
MainBlacklistLine ==
    /\ pc = "main_blacklist"
    /\ \E line \in MainBlacklistLines, order \in HashOrders :
          LET o == blacklistCharactersInput(numbers, letters, symbols, line, order)
          IN  IF o.at = "input"
              THEN UNCHANGED vars
              ELSE /\ numbers' = o.numbers
                   /\ letters' = o.letters
                   /\ symbols' = o.symbols
                   /\ entered' = line
                   /\ \E ko \in keygen(o.numbers, o.letters, o.symbols, keyLength, "True") :
                         MainAfterKeygen(call.site, o.numbers, o.letters, o.symbols,
                                         keyLength, ko)
    /\ UNCHANGED blacklist

\* a line typed at the keyLength prompt
MainLengthLine ==
    /\ pc = "main_length"
    /\ \E line \in LengthLines :
          \E ko \in keygenInput(numbers, letters, symbols, keyLength, line) :
             MainAfterKeygen(call.site, numbers, letters, symbols,
                             call.args.keyLength, ko)
    /\ UNCHANGED <<numbers, letters, symbols, blacklist, entered>>

\* a selection typed at the menu
MainOption ==
    /\ pc = "main_menu"
    /\ \E option \in Options :
          LET m == mainOption(option, numbers, letters, symbols, keyLength)
          IN  IF m.next = "keygen"
              THEN /\ \E ko \in keygen(m.numbers, m.letters, m.symbols, m.keyLength, "True") :
                         MainAfterKeygen(option, m.numbers, m.letters, m.symbols,
                                         m.keyLength, ko)
                   /\ numbers' = m.numbers
                   /\ letters' = m.letters
                   /\ symbols' = m.symbols
                   /\ UNCHANGED entered
              ELSE IF m.next = "blacklistCharacters"
              THEN /\ MainAtBlacklistPrompt(option, m.numbers, m.letters, m.symbols,
                          m.keyLength,
                          blacklistCharacters(m.numbers, m.letters, m.symbols, None,
                                              "True", Universe))
                   /\ entered' = <<>>
                   /\ UNCHANGED key
              ELSE /\ pc' = IF m.next = "exit" THEN "main_exit" ELSE pc
                   /\ UNCHANGED <<numbers, letters, symbols, keyLength, key, call, entered>>
    /\ UNCHANGED blacklist

MainNext ==
    \/ MainBlacklistLine
    \/ MainLengthLine
    \/ MainOption

ShellSpec == MainInit /\ [][MainNext]_vars

(***************************************************************************)
(* Properties.  A finished call has pc = "done"; call.args are the         *)
(* arguments as passed, call.used the blacklist the filter ran with, and   *)
(* call.out what the call did.                                             *)
(***************************************************************************)
Finished(fn) == pc = "done" /\ call.fn = fn
Returned(fn) == Finished(fn) /\ call.out.at = "return"
Raised(fn) == Finished(fn) /\ call.out.at = "raise"

PoolUnion(a) == set(a.numbers) \cup set(a.letters) \cup set(a.symbols)

\* the three pools of a call hold no character at all
NoCharacters(a) == PoolUnion(a) = {}

ValidPool(a) == isinstance_list(a) /\ allSingleCharacters(a)
ValidPools(a) == ValidPool(a.numbers) /\ ValidPool(a.letters) /\ ValidPool(a.symbols)

\* C1 as stated: the list returned by blacklistCharacters, called with a
\* blacklist (and pools that hold some character), holds exactly the blacklist
\* characters that were in some pool.
C1_Original ==
    (/\ Returned("blacklistCharacters")
     /\ isinstance_list(call.args.blacklist)
     /\ ~NoCharacters(call.args))
    => /\ set(call.out.ret) \subseteq set(call.args.blacklist)
       /\ set(call.out.ret) = set(call.args.blacklist) \cap PoolUnion(call.args)

\* C1 amended: the list returned by blacklistCharacters (which is also what the
\* caller's blacklist container then holds) is a subset of the blacklist passed
\* in and holds exactly the blacklist characters that were in NO pool.
C1_Amended ==
    (Returned("blacklistCharacters") /\ isinstance_list(call.args.blacklist))
    => /\ isinstance_list(call.out.ret)
       /\ set(call.out.ret) \subseteq set(call.args.blacklist)
       /\ set(call.out.ret) = set(call.args.blacklist) \ PoolUnion(call.args)
       /\ blacklist = call.out.ret

C1_Witness ==
    /\ Returned("blacklistCharacters")
    /\ isinstance_list(call.args.blacklist)
    /\ set(call.out.ret) # {}
    /\ set(call.args.blacklist) \cap PoolUnion(call.args) # {}

\* C2: after blacklistCharacters returns, no pool holds a character of the
\* blacklist it ran with, and each pool holds exactly the characters it held
\* before the call minus that blacklist.
C2_PoolsFiltered ==
    Returned("blacklistCharacters")
    => /\ isinstance_list(numbers) /\ isinstance_list(letters) /\ isinstance_list(symbols)
       /\ set(numbers) = set(call.args.numbers) \ set(call.used)
       /\ set(letters) = set(call.args.letters) \ set(call.used)
       /\ set(symbols) = set(call.args.symbols) \ set(call.used)
       /\ (set(numbers) \cup set(letters) \cup set(symbols)) \cap set(call.used) = {}

C2_Witness ==
    /\ Returned("blacklistCharacters")
    /\ set(call.args.numbers) \cap set(call.used) # {}
    /\ set(call.args.letters) \cap set(call.used) = {}
    /\ set(letters) # {}
    /\ set(call.args.numbers) \cap set(call.args.letters) = {}

\* C3 as stated: for every keyLength >= 0, with valid pools of which one is not
\* empty, keygen returns a key of keyLength characters and keyLength itself.
C3_Original ==
    (/\ Finished("keygen")
     /\ call.args.printToConsole \in {"True", "False"}
     /\ ValidPools(call.args)
     /\ ~NoCharacters(call.args)
     /\ call.args.keyLength.kind = "int"
     /\ call.args.keyLength.val >= 0)
    => /\ call.out.at = "return"
       /\ Len(key) = call.args.keyLength.val
       /\ keyLength = call.args.keyLength

\* C3 amended: for every keyLength >= 1, with valid pools of which one is not
\* empty, keygen returns a key of keyLength characters and keyLength itself.
C3_Amended ==
    (/\ Finished("keygen")
     /\ call.args.printToConsole \in {"True", "False"}
     /\ ValidPools(call.args)
     /\ ~NoCharacters(call.args)
     /\ call.args.keyLength.kind = "int"
     /\ call.args.keyLength.val >= 1)
    => /\ call.out.at = "return"
       /\ Len(key) = call.args.keyLength.val
       /\ keyLength = call.args.keyLength

C3_Witness ==
    /\ Returned("keygen")
    /\ call.args.keyLength = Int_(MaxKeyLen)
    /\ Len(key) = MaxKeyLen

\* the pools that are not empty, in the order numbers, letters, symbols
NonEmptyPools(a) ==
    SelectSeq(<<a.numbers.elems, a.letters.elems, a.symbols.elems>>, LAMBDA q : q # <<>>)

\* C4: every character of a returned key is in numbers, letters or symbols as
\* passed; the sets drawn from are exactly the non-empty pools, so no draw is
\* made from an empty one; with one non-empty pool the whole key is from it.
C4_KeyFromPools ==
    /\ Finished("keygen") => call.out.exc # "IndexError"
    /\ Returned("keygen")
       => /\ \A i \in DOMAIN key : key[i] \in PoolUnion(call.args)
          /\ call.out.characterSets = NonEmptyPools(call.args)
          /\ \A i \in DOMAIN key :
                \E j \in DOMAIN call.out.characterSets :
                   key[i] \in Range(call.out.characterSets[j])
          /\ Len(NonEmptyPools(call.args)) = 1
             => \A i \in DOMAIN key : key[i] \in Range(NonEmptyPools(call.args)[1])
          /\ <<numbers, letters, symbols>>
                = <<call.args.numbers, call.args.letters, call.args.symbols>>

C4_Witness ==
    /\ Returned("keygen")
    /\ Len(NonEmptyPools(call.args)) = 1
    /\ call.args.symbols.elems # <<>>
    /\ Len(key) = MaxKeyLen

AllEmptyCall ==
    /\ Finished("keygen")
    /\ call.args.printToConsole \in {"True", "False"}
    /\ call.args.keyLength.kind \in {"None", "int"}
    /\ ValidPools(call.args)
    /\ NoCharacters(call.args)

\* C5 as stated: with all three pools empty keygen fails with ValueError for
\* every keyLength, absent or non-positive ones included.
C5_Original ==
    AllEmptyCall => call.out.at = "raise" /\ call.out.exc = "ValueError"

\* C5 amended: with all three pools empty keygen never returns a key; it
\* fails with ValueError, except that a non-interactive call without a
\* keyLength fails with the TypeError of the missing keyLength.
C5_Amended ==
    AllEmptyCall
    => /\ call.out.at = "raise"
       /\ key = <<>>
       /\ IF call.args.printToConsole = "False" /\ call.args.keyLength.kind = "None"
          THEN call.out.exc = "TypeError" /\ call.out.msg = "keyLength None"
          ELSE call.out.exc = "ValueError"

C5_Witness ==
    /\ AllEmptyCall
    /\ call.args.printToConsole = "True"
    /\ call.args.keyLength.kind = "None"
    /\ call.out.msg = "all empty"

\* C6: a non-interactive keygen call with an integer keyLength <= 0 and valid
\* pools fails with ValueError and returns no key.
C6_NonPositiveLength ==
    (/\ Finished("keygen")
     /\ call.args.printToConsole = "False"
     /\ call.args.keyLength.kind = "int"
     /\ call.args.keyLength.val <= 0
     /\ ValidPools(call.args))
    => /\ call.out.at = "raise"
       /\ call.out.exc = "ValueError"
       /\ key = <<>>

C6_Witness ==
    /\ Raised("keygen")
    /\ call.args.printToConsole = "False"
    /\ call.args.keyLength = Int_(0)
    /\ ValidPools(call.args)
    /\ call.args.numbers.elems # <<>>
    /\ call.out.msg = "keyLength value"

\* C7: when blacklistCharacters or keygen raises, numbers, letters, symbols
\* and blacklist hold what they held before the call and no key was drawn.
C7_RaiseBeforeMutation ==
    (pc = "done" /\ call.out.at = "raise")
    => /\ numbers = call.args.numbers
       /\ letters = call.args.letters
       /\ symbols = call.args.symbols
       /\ call.fn = "blacklistCharacters" => blacklist = call.args.blacklist
       /\ call.fn = "blacklistCharacters" => call.out.ret = None
       /\ key = <<>>

C7_Witness ==
    /\ Raised("blacklistCharacters")
    /\ call.out.msg = "character length"
    /\ isinstance_list(call.args.blacklist)
    /\ set(call.args.blacklist) \cap set(call.args.letters) # {}

\* the arguments of the finished call that are of the wrong container type or
\* hold an element whose length is not 1
Offenders ==
    {x \in {"numbers", "letters", "symbols"} : ~ValidPool(call.args[x])}
    \cup (IF call.fn = "blacklistCharacters" /\ call.args.blacklist # None
              /\ ~ValidPool(call.args.blacklist)
          THEN {"blacklist"} ELSE {})

ContainerError == call.out.msg \in {"list type", "character length"}

\* C8 as stated: the error raised for invalid containers names every
\* offending argument, whatever the kind of its violation.
C8_Original ==
    (pc = "done" /\ call.out.at = "raise" /\ ContainerError)
    => Range(call.out.names) = Offenders

\* C8 amended: the errors are collected per kind.  The TypeError for pools that
\* are not lists names every pool that is not a list and nothing else; the
\* ValueError for elements of length # 1 is raised only when every pool is a
\* list, and names every argument holding such an element.
C8_Amended ==
    (pc = "done" /\ call.out.at = "raise")
    => /\ call.out.msg = "list type"
          => /\ call.out.exc = "TypeError"
             /\ call.out.names =
                   SelectSeq(<<"numbers", "letters", "symbols">>,
                             LAMBDA x : ~isinstance_list(call.args[x]))
       /\ call.out.msg = "character length"
          => /\ call.out.exc = "ValueError"
             /\ \A x \in {"numbers", "letters", "symbols"} : isinstance_list(call.args[x])
             /\ Range(call.out.names) = Offenders
             /\ call.out.names =
                   SelectSeq(<<"numbers", "letters", "symbols", "blacklist">>,
                             LAMBDA x : x \in Offenders)

C8_Witness ==
    /\ Raised("blacklistCharacters")
    /\ call.out.msg = "character length"
    /\ call.out.names = <<"letters", "blacklist">>

\* C9: in main, keygen is never called with three empty pools and main never
\* ends on an exception: past the blacklist prompt some pool has a character.
C9_NeverAllEmpty ==
    /\ pc # "main_raised"
    /\ call.fn = "keygen"
       => ~NoCharacters(call.args)
    /\ pc \in {"main_length", "main_menu"} => set(numbers) \cup set(letters) \cup set(symbols) # {}

C9_Witness ==
    /\ pc = "main_menu"
    /\ numbers.elems = <<>>
    /\ letters.elems = <<>>
    /\ Len(key) > 0

MainAlphabet == Range(digits) \cup Range(ascii_letters) \cup Range(punctuation)

\* C10: in main, past the blacklist prompt the pools are the full alphabets
\* minus the blacklist entered last, whatever menu options were taken, and a
\* generated key holds no character of that blacklist.
C10_KeyAvoidsBlacklist ==
    /\ pc \in {"main_length", "main_menu"}
       => /\ set(numbers) = Range(digits) \ Range(entered)
          /\ set(letters) = Range(ascii_letters) \ Range(entered)
          /\ set(symbols) = Range(punctuation) \ Range(entered)
    /\ (pc = "main_menu" /\ call.fn = "keygen")
       => /\ key = call.out.key
          /\ Range(key) \cap Range(entered) = {}
          /\ Range(key) \subseteq MainAlphabet

C10_Witness ==
    /\ pc = "main_menu"
    /\ call.site = "3"
    /\ Range(entered) = {"0", "a"}
    /\ Len(key) = MaxKeyLen
    /\ Range(key) = {"1", "!"}

====
